---- MODULE Spec2Model ----
(***************************************************************************)
(* A model of src/main.py (RomiBot): the sliding-window rate limiter, the  *)
(* message classifier with its retry loop, the confidence gate, the        *)
(* clarification tickets and the record router.                            *)
(*                                                                         *)
(* Confidences and other JSON numbers are kept in hundredths (0.6 is 60),  *)
(* instants are whole seconds.                                             *)
(***************************************************************************)
EXTENDS Integers, Sequences, FiniteSets, TLC

\* ------------------------------------------------------------------------
\* Program constants
\* ------------------------------------------------------------------------
max_requests == 10
window_seconds == 60

\* ------------------------------------------------------------------------
\* Bounds of the model
\* ------------------------------------------------------------------------
MaxNow == 90
TickSteps == {30, 60}
Identities == {"u1", "u2"}
MaxSegs == 3
NumTasks == 2        \* the updates that are handled at the same time
TaskIds == 1..NumTasks
MaxUpdates == 3      \* the updates received in one behaviour

\* ------------------------------------------------------------------------
\* JSON values as json.loads yields them: t is the Python type, s the string
\* value, n the numeric value in hundredths (True is 1, i.e. 100)
\* ------------------------------------------------------------------------
JV(t, s, n) == [t |-> t, s |-> s, n |-> n]
JMissing == JV("missing", "", 0)     \* the key is not in the object
JNull == JV("null", "", 0)           \* None
JTrue == JV("bool", "", 100)
JFalse == JV("bool", "", 0)
JStr(s) == JV("str", s, 0)
JInt(k) == JV("int", "", k * 100)
JFloat(h) == JV("float", "", h)
JNaN == JV("nan", "", 0)             \* float('nan'): json.loads reads NaN
JInf == JV("inf", "", 0)             \* float('inf'): json.loads reads Infinity, 1e999
JList == JV("list", "", 0)           \* a non-empty list

\* dict.get(key): None for a missing key
Get(data, key) == IF data[key].t = "missing" THEN JNull ELSE data[key]
\* dict.get(key, default)
GetDefault(data, key, default) == IF data[key].t = "missing" THEN default ELSE data[key]
\* isinstance(v, (int, float)): bool is a subclass of int
IsIntOrFloat(v) == v.t \in {"bool", "int", "float", "nan", "inf"}
\* bool(v)
Truthy(v) ==
    CASE v.t \in {"missing", "null"} -> FALSE
      [] v.t \in {"bool", "int", "float"} -> v.n # 0
      [] v.t \in {"nan", "inf", "list"} -> TRUE
      [] OTHER -> v.s # ""
\* lo <= v <= hi for a number v (every comparison with nan is False)
Between(lo, v, hi) == v.t \in {"bool", "int", "float"} /\ lo <= v.n /\ v.n <= hi
\* float(v) of a number
ToFloat(v) == IF v.t \in {"nan", "inf"} THEN v ELSE JFloat(v.n)
\* int(v) of a number truncates toward zero; int(nan) and int(inf) raise
IntRaises(v) == v.t \in {"nan", "inf"}
ToInt(v) == JV("int", "", IF v.n >= 0 THEN (v.n \div 100) * 100
                          ELSE - (((- v.n) \div 100) * 100))

\* ------------------------------------------------------------------------
\* ParsedMessage (lines 56-70)
\* ------------------------------------------------------------------------
Categories == {"food", "sleep", "cry", "behavior", "question", "other"}
OptionalFields == {"item", "qty_value", "qty_unit", "method", "start_time",
                   "end_time", "duration_min", "intensity_1_5", "description",
                   "notes"}
DataKeys == {"category", "confidence"} \cup OptionalFields

\* the dataclass defaults
ParsedMessage ==
    [category |-> "other", confidence |-> 50,
     item |-> JNull, qty_value |-> JNull, qty_unit |-> JNull, method |-> JNull,
     start_time |-> JNull, end_time |-> JNull, duration_min |-> JNull,
     intensity_1_5 |-> JNull, description |-> JNull, notes |-> JNull]

\* mutant of create_fallback_response: the fallback keeps the default confidence
FallbackDefaultConfidence(text) ==
    [ParsedMessage EXCEPT !.category = "other",
                          !.description = JStr(text), !.notes = JStr(text)]

\* lines 601-608
create_fallback_response(text) ==
    [ParsedMessage EXCEPT !.category = "other", !.confidence = 30,
                          !.description = JStr(text), !.notes = JStr(text)]

\* ------------------------------------------------------------------------
\* The texts of the messages and their short identifiers:
\* hashlib.md5(text.encode()).hexdigest()[:8] on these three texts
\* ------------------------------------------------------------------------
Texts == {"note 47428", "note 83920", "note 1"}

\* line 855
generate_text_id(text) ==
    CASE text = "note 47428" -> "1b83b653"
      [] text = "note 83920" -> "1b83b653"
      [] OTHER -> "6c79c2ac"

TextIds == {"1b83b653", "6c79c2ac"}

\* ------------------------------------------------------------------------
\* The LLM's responses.  A response either raises (network error, blocked
\* response) or is a text, kept as a sequence of segments:
\*   "P" prose without braces, "O" one well-formed JSON object (its content
\*   is the response's data), "L" a stray opening brace, "R" a stray closing
\*   brace, "V" a JSON value that is not an object (null, a list, a number)
\* ------------------------------------------------------------------------
Tokens == {"P", "O", "L", "R", "V"}
SegSeqs(n) == UNION {[1..k -> Tokens] : k \in 1..n}

NoData == [k \in DataKeys |-> JMissing]
LLMResponse(err, segs, data) == [err |-> err, segs |-> segs, data |-> data]

\* re.search(r'\{.*\}', text, re.DOTALL): from the first opening brace to
\* the last closing brace (line 653); <<>> when there is no match
Opens(segs) == {i \in 1..Len(segs) : segs[i] \in {"O", "L"}}
Closes(segs) == {i \in 1..Len(segs) : segs[i] \in {"O", "R"}}
Min(S) == CHOOSE x \in S : \A y \in S : x <= y
Max(S) == CHOOSE x \in S : \A y \in S : x >= y
json_match(segs) ==
    IF Opens(segs) # {} /\ \E j \in Closes(segs) : j >= Min(Opens(segs))
    THEN SubSeq(segs, Min(Opens(segs)), Max(Closes(segs)))
    ELSE <<>>
\* lines 650-655: the text handed to json.loads
result_text(segs) == IF json_match(segs) # <<>> THEN json_match(segs) ELSE segs

\* lines 649-673: the exception one attempt ends with ("" when it returns)
AttemptException(r) ==
    CASE r.err -> "NetworkError"
      [] ~ r.err /\ result_text(r.segs) = <<"V">> -> "AttributeError"
      [] ~ r.err /\ result_text(r.segs) \notin {<<"V">>, <<"O">>} -> "JSONDecodeError"
      [] OTHER ->
           IF /\ Truthy(Get(r.data, "duration_min"))
              /\ IsIntOrFloat(Get(r.data, "duration_min"))
              /\ IntRaises(Get(r.data, "duration_min"))
           THEN IF Get(r.data, "duration_min").t = "nan" THEN "ValueError"
                ELSE "OverflowError"
           ELSE ""

\* mutant of ValidCategory: the category of the response is taken as it is
AnyStringCategory(data) ==
    IF GetDefault(data, "category", JStr("other")).t = "str"
    THEN GetDefault(data, "category", JStr("other")).s ELSE "other"

\* line 661
ValidCategory(data) ==
    IF Get(data, "category").t = "str" /\ Get(data, "category").s \in Categories
    THEN GetDefault(data, "category", JStr("other")).s
    ELSE "other"

\* line 662
ValidConfidence(data) ==
    IF /\ IsIntOrFloat(Get(data, "confidence"))
       /\ Between(0, GetDefault(data, "confidence", JFloat(50)), 100)
    THEN ToFloat(GetDefault(data, "confidence", JFloat(50))).n
    ELSE 50

\* lines 660-673
BuildParsedMessage(data) ==
    [category |-> ValidCategory(data),
     confidence |-> ValidConfidence(data),
     item |-> Get(data, "item"),
     qty_value |-> IF Truthy(Get(data, "qty_value")) /\ IsIntOrFloat(Get(data, "qty_value"))
                   THEN ToFloat(Get(data, "qty_value")) ELSE JNull,
     qty_unit |-> Get(data, "qty_unit"),
     method |-> Get(data, "method"),
     start_time |-> Get(data, "start_time"),
     end_time |-> Get(data, "end_time"),
     duration_min |-> IF Truthy(Get(data, "duration_min")) /\ IsIntOrFloat(Get(data, "duration_min"))
                      THEN ToInt(Get(data, "duration_min")) ELSE JNull,
     intensity_1_5 |-> IF /\ Truthy(Get(data, "intensity_1_5"))
                          /\ IsIntOrFloat(Get(data, "intensity_1_5"))
                          /\ Between(100, Get(data, "intensity_1_5"), 500)
                       THEN ToInt(Get(data, "intensity_1_5")) ELSE JNull,
     description |-> Get(data, "description"),
     notes |-> Get(data, "notes")]

\* the classes of exception an attempt can end with
ExceptionClasses == {"NetworkError", "JSONDecodeError", "AttributeError",
                     "ValueError", "OverflowError"}

\* mutant of CaughtByExcept: only the JSON error is caught
CaughtJSONErrorOnly(exc) == exc = "JSONDecodeError"

\* line 675: except Exception
CaughtByExcept(exc) == exc \in ExceptionClasses

\* mutant of LastAttempt: the last attempt is not told apart
NeverLastAttempt(attempt) == FALSE

\* line 676
LastAttempt(attempt) == attempt = 2

\* line 647: for attempt in range(3)
MoreAttempts(attempt) == attempt < 3

\* the responses offered to the classifier alone
CategoryValues == {JStr(c) : c \in Categories} \cup {JStr("nap"), JMissing, JNull, JInt(1)}
ConfidenceValues == {JMissing, JNull, JStr("high"), JTrue, JFalse, JInt(0), JInt(1),
                     JInt(2), JFloat(-10), JFloat(30), JFloat(59), JFloat(60),
                     JFloat(110), JNaN, JInf}
FieldValues == {JNull, JStr("x"), JStr(""), JStr("45"), JInt(0), JInt(3), JInt(7),
                JFloat(250), JFloat(-250), JTrue, JFalse, JNaN, JInf, JList}
GridData == {[NoData EXCEPT !.category = c, !.confidence = f] :
                c \in CategoryValues, f \in ConfidenceValues}
FieldData == {[NoData EXCEPT !.category = JStr("food"), !.confidence = JFloat(90), ![k] = v] :
                k \in OptionalFields, v \in FieldValues}
ShapeData == {[NoData EXCEPT !.category = JStr("sleep"), !.confidence = JFloat(90)],
              [NoData EXCEPT !.category = JStr("sleep"), !.duration_min = JInf]}
ClassifyResponses ==
    {LLMResponse(TRUE, <<"P">>, NoData)} \cup
    {LLMResponse(FALSE, segs, data) : segs \in SegSeqs(MaxSegs), data \in ShapeData} \cup
    {LLMResponse(FALSE, segs, data) : segs \in {<<"O">>, <<"P", "O", "P">>},
                                      data \in GridData \cup FieldData}

\* ------------------------------------------------------------------------
\* Tasks: the handling of one update (asyncio.create_task, line 802)
\* ------------------------------------------------------------------------
IdleTask ==
    [kind |-> "none", pc |-> "idle", seq |-> 0, user |-> "", text |-> "",
     colon |-> FALSE, code |-> "", text_id |-> "",
     attempt |-> 0, llmCalls |-> 0, sleeps |-> 0, fails |-> 0, lastExc |-> "",
     hasParsed |-> FALSE, parsed |-> ParsedMessage, usedFallback |-> FALSE,
     llmData |-> NoData,
     gate |-> "", route |-> "", wrote |-> 0, replies |-> <<>>,
     sawResolved |-> FALSE, ticket |-> 0, qattempt |-> 0, answer |-> "",
     alen |-> 0, retrieved |-> FALSE, read |-> FALSE, crashed |-> FALSE,
     checks |-> <<>>, response |-> <<>>]


VARIABLES
    now,          \* time.time(), in seconds
    requests,     \* RateLimiter.requests: identity -> list of instants
    lastCall,     \* the most recent is_allowed call: identity, instant, list before, result
    lastAdmitAt,  \* identity -> instant of its latest admitted call (-1: none)
    lastRejectAt, \* identity -> instant of its latest rejected call (-1: none)
    tasks,        \* task id -> the task's position and local variables
    running,      \* the task that holds the event loop (0: none)
    CLARIFICATION_TEXTS,  \* text_id -> original text ("": no entry)
    store,        \* the rows appended to the spreadsheet, in order
    arrived,      \* the number of updates received so far
    issuedFor,    \* text_id -> the texts it was issued for since it was last removed
    resolvedIds,  \* the text_ids a resolution has written the record of and has
                  \* ended, with no ticket issued since
    ticketOwner   \* text_id -> the message (its number of arrival) whose ticket
                  \* is outstanding: issued, and no resolution that looked that
                  \* ticket up has completed (0: none)

rateVars == <<now, requests, lastCall, lastAdmitAt, lastRejectAt>>
taskVars == <<tasks, running>>
ticketVars == <<CLARIFICATION_TEXTS, issuedFor, resolvedIds, ticketOwner>>
vars == <<now, requests, lastCall, lastAdmitAt, lastRejectAt, tasks, running,
          CLARIFICATION_TEXTS, store, arrived, issuedFor, resolvedIds,
          ticketOwner>>

NoCall == [user |-> "", at |-> 0, before |-> <<>>, admitted |-> FALSE,
           prevAdmit |-> -1, prevReject |-> -1]

\* ------------------------------------------------------------------------
\* RateLimiter
\* ------------------------------------------------------------------------

\* mutant of KeepRecent: the comparison admits the entry that is exactly
\* window_seconds old
KeepRecentInclusive(user_requests, t) ==
    SelectSeq(user_requests, LAMBDA req_time : t - req_time <= window_seconds)

\* line 84: [req_time for req_time in user_requests if now - req_time < window]
KeepRecent(user_requests, t) ==
    SelectSeq(user_requests, LAMBDA req_time : t - req_time < window_seconds)

\* mutant of is_allowed: the count is not looked at
IsAllowedIgnoresCount(user_requests, t) == TRUE

\* lines 86-90: the value is_allowed returns
is_allowed(user_requests, t) ==
    ~ (Len(KeepRecent(user_requests, t)) >= max_requests)

\* mutant of AfterIsAllowed: the attempt is recorded before the count is checked
AfterIsAllowedAlwaysRecord(user_requests, t) ==
    Append(KeepRecent(user_requests, t), t)

\* lines 84-90: the list is_allowed leaves behind
AfterIsAllowed(user_requests, t) ==
    IF Len(KeepRecent(user_requests, t)) >= max_requests
    THEN KeepRecent(user_requests, t)
    ELSE Append(KeepRecent(user_requests, t), t)

\* time passes
Tick ==
    /\ \E d \in TickSteps :
         /\ now + d <= MaxNow
         /\ now' = now + d
    /\ UNCHANGED <<requests, lastCall, lastAdmitAt, lastRejectAt, taskVars,
                   ticketVars, store, arrived>>

\* lines 79-90: what one call is_allowed(u) does to the limiter
CallIsAllowed(u) ==
    /\ requests' = [requests EXCEPT ![u] = AfterIsAllowed(requests[u], now)]
    /\ lastCall' = [user |-> u, at |-> now, before |-> requests[u],
                    admitted |-> is_allowed(requests[u], now),
                    prevAdmit |-> lastAdmitAt[u], prevReject |-> lastRejectAt[u]]
    /\ IF is_allowed(requests[u], now)
       THEN /\ lastAdmitAt' = [lastAdmitAt EXCEPT ![u] = now]
            /\ UNCHANGED lastRejectAt
       ELSE /\ lastRejectAt' = [lastRejectAt EXCEPT ![u] = now]
            /\ UNCHANGED lastAdmitAt

\* one call rate_limiter.is_allowed(u)
IsAllowedCall(u) ==
    /\ CallIsAllowed(u)
    /\ UNCHANGED <<now, taskVars, ticketVars, store, arrived>>

InitRate ==
    /\ now = 0
    /\ requests = [u \in Identities |-> <<>>]
    /\ lastCall = NoCall
    /\ lastAdmitAt = [u \in Identities |-> -1]
    /\ lastRejectAt = [u \in Identities |-> -1]
    /\ tasks = [t \in TaskIds |-> IdleTask]
    /\ running = 0
    /\ CLARIFICATION_TEXTS = [i \in TextIds |-> ""]
    /\ store = <<>>
    /\ arrived = 0
    /\ issuedFor = [i \in TextIds |-> {}]
    /\ resolvedIds = {}
    /\ ticketOwner = [i \in TextIds |-> 0]

NextRate ==
    \/ Tick
    \/ \E u \in Identities : IsAllowedCall(u)

SpecRate == InitRate /\ [][NextRate]_vars

\* ------------------------------------------------------------------------
\* Claims on the rate limiter (checked under SpecRate)
\* ------------------------------------------------------------------------
Called == lastCall.user # ""

\* the entries of a list that are at most / less than window_seconds old at t
NotOlderThanWindow(list, t) == SelectSeq(list, LAMBDA e : t - e <= window_seconds)
YoungerThanWindow(list, t) == SelectSeq(list, LAMBDA e : t - e < window_seconds)

\* C2 as stated: a call discards the entries older than the window (so an
\* entry exactly window_seconds old stays), returns false and records nothing
\* when max_requests or more remain, and otherwise appends the current
\* instant and returns true.
C2_AsStated ==
    Called =>
        LET kept == NotOlderThanWindow(lastCall.before, lastCall.at)
        IN  /\ lastCall.admitted = (Len(kept) < max_requests)
            /\ requests[lastCall.user] =
                  IF Len(kept) >= max_requests THEN kept
                  ELSE Append(kept, lastCall.at)

\* C2 amended: a call discards the entries that are window_seconds old or
\* older, keeping those strictly younger; it returns false and records
\* nothing when max_requests or more remain, and otherwise appends exactly
\* the current instant and returns true.
C2_IsAllowedContract ==
    Called =>
        LET kept == YoungerThanWindow(lastCall.before, lastCall.at)
        IN  /\ lastCall.admitted = (Len(kept) < max_requests)
            /\ requests[lastCall.user] =
                  IF Len(kept) >= max_requests THEN kept
                  ELSE Append(kept, lastCall.at)

\* a call that found a full list whose entries were all exactly
\* window_seconds old, and was admitted
C2_Witness ==
    /\ Called
    /\ lastCall.admitted
    /\ Len(lastCall.before) = max_requests
    /\ \A i \in 1..Len(lastCall.before) :
          lastCall.at - lastCall.before[i] = window_seconds

\* C3: with max 10 and window 60, a call that finds 10 admitted calls of
\* its identity inside the last 60 seconds returns false and is not
\* recorded; a call made once 60 seconds have passed since the identity's
\* latest admitted call returns true, however recently a call of that
\* identity was rejected.
C3_EleventhRejectedThenRecovers ==
    Called =>
        LET inWindow == Cardinality({i \in 1..Len(lastCall.before) :
                                       lastCall.at - lastCall.before[i] < 60})
        IN  /\ inWindow >= 10 => ~ lastCall.admitted
            /\ inWindow < 10 => lastCall.admitted
            /\ ~ lastCall.admitted => Len(requests[lastCall.user]) = inWindow
            /\ lastCall.at - lastCall.prevAdmit >= 60 => lastCall.admitted
            /\ lastCall.prevAdmit >= 0 =>
                  lastCall.before[Len(lastCall.before)] = lastCall.prevAdmit

\* an admitted call after ten admitted calls, with a rejected call of the
\* same identity less than 60 seconds before it
C3_Witness ==
    /\ Called
    /\ lastCall.admitted
    /\ Len(lastCall.before) = 10
    /\ lastCall.prevReject > lastCall.prevAdmit
    /\ lastCall.at - lastCall.prevReject < 60

\* ------------------------------------------------------------------------
\* AIProcessor.parse_message (lines 610-681), one step per LLM call and per
\* time.sleep(1).  It is synchronous code: the task keeps the event loop.
\* ------------------------------------------------------------------------
StartParse(tk) ==
    [tk EXCEPT !.pc = "pm_call", !.attempt = 0, !.llmCalls = 0, !.sleeps = 0,
               !.fails = 0, !.lastExc = "", !.hasParsed = FALSE,
               !.parsed = ParsedMessage, !.usedFallback = FALSE,
               !.llmData = NoData, !.response = <<>>]

\* lines 678 and 681
ReturnFallback(tk) ==
    [tk EXCEPT !.hasParsed = TRUE, !.parsed = create_fallback_response(tk.text),
               !.usedFallback = TRUE, !.pc = "pm_done"]

\* lines 648-679: one attempt, on the response r
AfterAttempt(tk, r) ==
    LET exc == AttemptException(r)
        called == [tk EXCEPT !.llmCalls = @ + 1,
                             !.response = IF r.err THEN <<>> ELSE r.segs]
        failed == [called EXCEPT !.fails = @ + 1, !.lastExc = exc]
    IN  IF exc = ""
        THEN [called EXCEPT !.hasParsed = TRUE,
                            !.parsed = BuildParsedMessage(r.data),
                            !.llmData = r.data,
                            !.pc = "pm_done"]
        ELSE IF ~ CaughtByExcept(exc)
        THEN [failed EXCEPT !.pc = "pm_raised"]
        ELSE IF LastAttempt(tk.attempt)
        THEN ReturnFallback(failed)
        ELSE [failed EXCEPT !.pc = "pm_sleep"]

ParseAttempt(t, R) ==
    /\ tasks[t].pc = "pm_call"
    /\ running = t
    /\ \E r \in R : tasks' = [tasks EXCEPT ![t] = AfterAttempt(tasks[t], r)]
    /\ UNCHANGED <<rateVars, running, ticketVars, store, arrived>>

\* line 679, then the next round of the loop (line 647) or line 681
AfterSleep(tk) ==
    LET slept == [tk EXCEPT !.sleeps = @ + 1, !.attempt = @ + 1]
    IN  IF MoreAttempts(slept.attempt)
        THEN [slept EXCEPT !.pc = "pm_call"]
        ELSE ReturnFallback(slept)

ParseSleep(t) ==
    /\ tasks[t].pc = "pm_sleep"
    /\ running = t
    /\ tasks' = [tasks EXCEPT ![t] = AfterSleep(tasks[t])]
    /\ UNCHANGED <<rateVars, running, ticketVars, store, arrived>>

\* the classifier on its own: one classification after the other
ClassifyAgain ==
    /\ tasks[1].pc = "pm_done"
    /\ \E text \in Texts :
         tasks' = [tasks EXCEPT ![1] = StartParse([tasks[1] EXCEPT !.text = text])]
    /\ UNCHANGED <<rateVars, running, ticketVars, store, arrived>>

InitClassify ==
    /\ now = 0
    /\ requests = [u \in Identities |-> <<>>]
    /\ lastCall = NoCall
    /\ lastAdmitAt = [u \in Identities |-> -1]
    /\ lastRejectAt = [u \in Identities |-> -1]
    /\ \E text \in Texts :
         tasks = [t \in TaskIds |->
                    IF t = 1 THEN StartParse([IdleTask EXCEPT !.kind = "classify",
                                                              !.text = text])
                    ELSE IdleTask]
    /\ running = 1
    /\ CLARIFICATION_TEXTS = [i \in TextIds |-> ""]
    /\ store = <<>>
    /\ arrived = 0
    /\ issuedFor = [i \in TextIds |-> {}]
    /\ resolvedIds = {}
    /\ ticketOwner = [i \in TextIds |-> 0]

NextClassify ==
    \/ ParseAttempt(1, ClassifyResponses)
    \/ ParseSleep(1)
    \/ ClassifyAgain

SpecClassify == InitClassify /\ [][NextClassify]_vars

\* the classifier on its own where every LLM call returns and every sleep
\* ends, on one response of each kind of outcome
FairResponses ==
    {LLMResponse(TRUE, <<"P">>, NoData),
     LLMResponse(FALSE, <<"P">>, NoData),
     LLMResponse(FALSE, <<"V">>, NoData),
     LLMResponse(FALSE, <<"O">>, [NoData EXCEPT !.duration_min = JNaN])} \cup
    {LLMResponse(FALSE, <<"O">>, data) : data \in GridData}

NextClassifyFair ==
    \/ ParseAttempt(1, FairResponses)
    \/ ParseSleep(1)
    \/ ClassifyAgain

SpecClassifyFair ==
    /\ InitClassify
    /\ [][NextClassifyFair]_vars
    /\ WF_vars(ParseAttempt(1, FairResponses))
    /\ WF_vars(ParseSleep(1))

\* ------------------------------------------------------------------------
\* Claims on the classifier (checked under SpecClassify)
\* ------------------------------------------------------------------------

\* C4: parse_message never raises: whatever the LLM does on each attempt,
\* no exception leaves parse_message and, when it returns, it returns a
\* ParsedMessage.
C4_NeverRaises ==
    \A t \in TaskIds :
        /\ tasks[t].pc # "pm_raised"
        /\ tasks[t].pc = "pm_done" =>
              /\ tasks[t].hasParsed
              /\ DOMAIN tasks[t].parsed = DataKeys
              /\ tasks[t].parsed.category \in STRING
              /\ tasks[t].parsed.confidence \in Int

\* a classification that returned a parsed response after an attempt that
\* ended in an error raised by the validation itself
C4_Witness ==
    /\ tasks[1].pc = "pm_done"
    /\ tasks[1].fails = 2
    /\ tasks[1].lastExc = "OverflowError"
    /\ ~ tasks[1].usedFallback

\* C5: when all 3 attempts of a classification fail, the result has category
\* other, confidence 0.3, description and notes equal to the input text and
\* every other field absent.
C5_FallbackAfterThreeFailures ==
    \A t \in TaskIds :
        (tasks[t].pc = "pm_done" /\ tasks[t].fails = 3) =>
            tasks[t].parsed =
                [category |-> "other", confidence |-> 30,
                 item |-> JNull, qty_value |-> JNull, qty_unit |-> JNull,
                 method |-> JNull, start_time |-> JNull, end_time |-> JNull,
                 duration_min |-> JNull, intensity_1_5 |-> JNull,
                 description |-> JStr(tasks[t].text),
                 notes |-> JStr(tasks[t].text)]

\* a classification that returned after three failed attempts
C5_Witness ==
    /\ tasks[1].pc = "pm_done"
    /\ tasks[1].fails = 3
    /\ tasks[1].llmCalls = 3

\* the counts of one classification: at most 3 LLM calls; a sleep follows
\* each failed attempt but the third; the attempt that succeeds is the last
C6_Counts ==
    \A t \in TaskIds :
        LET k == tasks[t]
        IN  /\ k.llmCalls <= 3
            /\ k.sleeps <= 2
            /\ k.pc = "pm_call" => k.fails = k.llmCalls /\ k.sleeps = k.llmCalls
            /\ k.pc = "pm_sleep" => /\ k.fails = k.llmCalls
                                    /\ k.sleeps = k.llmCalls - 1
                                    /\ k.llmCalls < 3
            /\ k.pc = "pm_done" =>
                  /\ k.sleeps = k.llmCalls - 1
                  /\ k.usedFallback => k.fails = 3 /\ k.llmCalls = 3
                  /\ ~ k.usedFallback => k.fails = k.llmCalls - 1

\* C6: one classification makes at most 3 LLM attempts, retries only after a
\* failure and only while fewer than 3 attempts were made, makes no attempt
\* after a successful one, sleeps only between two attempts, and, when each
\* LLM call returns, terminates.
C6_BoundedRetries ==
    /\ [] C6_Counts
    /\ (tasks[1].pc \in {"pm_call", "pm_sleep"}) ~> (tasks[1].pc = "pm_done")

\* a classification whose third attempt succeeded
C6_Witness ==
    /\ tasks[1].pc = "pm_done"
    /\ tasks[1].llmCalls = 3
    /\ tasks[1].sleeps = 2
    /\ ~ tasks[1].usedFallback

\* ------------------------------------------------------------------------
\* RomiBot: the handlers of text messages and of button presses.  A task
\* runs from one await to the next while it holds the event loop; the calls
\* to the LLM and to the spreadsheet are synchronous and keep the loop.
\* ------------------------------------------------------------------------
AuthorizedUsers == {"u1"}
CallbackCodes == {"f", "s", "c", "b", "q", "o", "x"}

\* lines 189-203: the Users sheet lists the identity and could be read
\* every identity passes the lookup
IsAuthorizedAnyone(chat_id, sheetOk) == TRUE

is_authorized_user(chat_id, sheetOk) == sheetOk /\ chat_id \in AuthorizedUsers

\* lines 1387-1392: category_map.get(category_code, 'other')
category_map(code) ==
    CASE code = "f" -> "food" [] code = "s" -> "sleep" [] code = "c" -> "cry"
      [] code = "b" -> "behavior" [] code = "q" -> "question"
      [] code = "o" -> "other" [] OTHER -> "other"

\* lines 1400-1405
CorrectedParsed(category, original_text) ==
    [ParsedMessage EXCEPT !.category = category, !.confidence = 100,
                          !.description = JStr(original_text),
                          !.notes = JStr(original_text)]

\* mutant of LowConfidence: the boundary asks for clarification
LowConfidenceInclusive(parsed) == parsed.confidence <= 60

\* mutant of LowConfidence: the threshold is one half
LowConfidenceBelowHalf(parsed) == parsed.confidence < 50

\* line 1253
LowConfidence(parsed) == parsed.confidence < 60

\* mutant of RouteOf: a question is filed like any other note
RouteQuestionAsOther(category) ==
    CASE category = "food" -> "food"
      [] category = "sleep" -> "sleep"
      [] OTHER -> "behavior"

\* lines 1258-1267: the operation handle_message dispatches a category to
RouteOf(category) ==
    CASE category = "food" -> "food"
      [] category = "sleep" -> "sleep"
      [] category \in {"cry", "behavior"} -> "behavior"
      [] category = "question" -> "question"
      [] OTHER -> "behavior"

\* lines 1415-1422: the operation handle_callback dispatches a category to
CallbackRouteOf(category) ==
    CASE category = "food" -> "food"
      [] category = "sleep" -> "sleep"
      [] category \in {"cry", "behavior", "other"} -> "behavior"
      [] category = "question" -> "question"
      [] OTHER -> ""

\* the sheet save_food / save_sleep / save_behavior appends to
SheetOf(route) ==
    CASE route = "food" -> "Food" [] route = "sleep" -> "Sleep"
      [] OTHER -> "Behavior"

\* the texts given as times of day, and datetime.strptime(text, '%H:%M')
\* on them, in minutes since midnight (-1: ValueError)
TimeTexts == {"00:00", "00:15", "13:10", "14:30", "15:09", "15:10", "23:30",
              "23:59", "24:00", "soon"}
MinutesPerDay == 1440
strptime(text) ==
    CASE text = "00:00" -> 0
      [] text = "00:15" -> 15
      [] text = "13:10" -> 13 * 60 + 10
      [] text = "14:30" -> 14 * 60 + 30
      [] text = "15:09" -> 15 * 60 + 9
      [] text = "15:10" -> 15 * 60 + 10
      [] text = "23:30" -> 23 * 60 + 30
      [] text = "23:59" -> 23 * 60 + 59
      [] OTHER -> -1

\* lines 534-536: end - start in minutes, a day added when end < start
MinutesBetween(start, end) ==
    IF end < start THEN end + MinutesPerDay - start ELSE end - start

\* lines 529-538: the duration of save_sleep; strptime raises on a value
\* that is not a string or not a time, and the exception is passed over
SleepDuration(parsed) ==
    IF Truthy(parsed.start_time) /\ Truthy(parsed.end_time)
    THEN IF /\ parsed.start_time.t = "str" /\ strptime(parsed.start_time.s) >= 0
            /\ parsed.end_time.t = "str" /\ strptime(parsed.end_time.s) >= 0
         THEN JInt(MinutesBetween(strptime(parsed.start_time.s),
                                  strptime(parsed.end_time.s)))
         ELSE JNull
    ELSE JNull

\* the bound of a short nap, in minutes
NapBelow == 120

\* line 540: "nap" stands for the label of a short nap, "sleep" for the
\* label of a full sleep
SleepKind(duration) ==
    IF Truthy(duration) /\ duration.n < NapBelow * 100 THEN "nap" ELSE "sleep"

\* line 545: duration or ''
DurationCell(duration) == IF Truthy(duration) THEN duration ELSE JStr("")

\* lines 509-514, 542-547, 563-568: the appended row
RecordRow(tk) ==
    [sheet |-> SheetOf(tk.route), update |-> tk.seq, user |-> tk.user,
     backed_by_data |-> FALSE,
     duration |-> IF tk.route = "sleep" THEN DurationCell(SleepDuration(tk.parsed))
                  ELSE JStr(""),
     kind |-> IF tk.route = "sleep" THEN SleepKind(SleepDuration(tk.parsed))
              ELSE ""]

\* lines 577-582, called from lines 1334, 1339 and 1476
QARow(tk, backed_by_data) ==
    [sheet |-> "Q&A_Log", update |-> tk.seq, user |-> tk.user,
     backed_by_data |-> backed_by_data, duration |-> JStr(""), kind |-> ""]

Goto(tk, pc) == [tk EXCEPT !.pc = pc]
Replied(tk, kind) == [tk EXCEPT !.replies = Append(@, kind)]
Wrote(tk) == [tk EXCEPT !.wrote = @ + 1]
\* the local variables that are not read any more
Forget(tk) == [tk EXCEPT !.hasParsed = FALSE, !.parsed = ParsedMessage,
                         !.usedFallback = FALSE, !.llmData = NoData,
                         !.text = "", !.colon = FALSE, !.code = "", !.qattempt = 0,
                         !.answer = "", !.alen = 0, !.retrieved = FALSE]
\* the handler returns
Finish(tk) == Forget([tk EXCEPT !.pc = "done", !.ticket = 0])
\* an exception leaves the handler
Crash(tk) == [Finish(tk) EXCEPT !.crashed = TRUE]
\* parse_message has returned: its local variables are gone
EndParse(tk) == [tk EXCEPT !.attempt = 0, !.llmCalls = 0, !.sleeps = 0,
                           !.fails = 0, !.lastExc = "", !.response = <<>>]
Step(tk) == [tk |-> tk, rows |-> <<>>, pop |-> FALSE]
\* mutant of StepRow: the row is appended twice
StepRowTwice(tk, row) == [tk |-> tk, rows |-> <<row, row>>, pop |-> FALSE]
StepRow(tk, row) == [tk |-> tk, rows |-> <<row>>, pop |-> FALSE]
\* mutant of Popping: the ticket is removed only after a row was written
PoppingAfterWrite(step) == [step EXCEPT !.pop = step.tk.wrote > 0]
Popping(step) == [step EXCEPT !.pop = TRUE]

\* lines 795-807: an update arrives and its handling is made a task
NewMessage(n, u, text) ==
    [IdleTask EXCEPT !.kind = "msg", !.pc = "m_start", !.seq = n, !.user = u,
                     !.text = text]
NewCallback(n, u, colon, code, id) ==
    [IdleTask EXCEPT !.kind = "cb", !.pc = "c_answer", !.seq = n, !.user = u,
                     !.colon = colon, !.code = code, !.text_id = id]

\* a command: /today, /week, /export or /testai with its arguments
NewCommand(n, u, cmd, args) ==
    [IdleTask EXCEPT !.kind = "cmd", !.pc = "k_start", !.seq = n, !.user = u,
                     !.code = cmd, !.text = args]

\* a task that has ended leaves its place to the task of a later update
Free(t) == tasks[t].pc \in {"idle", "done"}

\* the updates offered to the webhook: the two texts of one identifier
\* from the authorized identity and a text from the other identity; every
\* button of the ticket of the first text and one button of every other
\* ticket from the authorized identity, one button from the other identity,
\* and a button whose data has no colon
Messages ==
    {<<u, text>> : u \in AuthorizedUsers, text \in {"note 47428", "note 83920"}}
    \cup {<<u, "note 1">> : u \in Identities \ AuthorizedUsers}
Presses ==
    {<<u, TRUE, code, generate_text_id("note 47428")>> :
        u \in AuthorizedUsers, code \in CallbackCodes}
    \cup {<<u, TRUE, "s", id>> : u \in AuthorizedUsers, id \in TextIds}
    \cup {<<u, TRUE, "s", generate_text_id("note 47428")>> :
             u \in Identities \ AuthorizedUsers}
    \cup {<<u, FALSE, "", "">> : u \in AuthorizedUsers}

\* the commands offered: each command, and /testai without arguments too;
\* the command handlers never read the identity of the sender, so the
\* commands of one identity, the one that is not authorized, are enough
CommandNames == {"today", "week", "export", "testai"}
Commands ==
    {<<u, cmd, "note 1">> : u \in Identities \ AuthorizedUsers, cmd \in CommandNames}
    \cup {<<u, "testai", "">> : u \in Identities \ AuthorizedUsers}

\* handle_webhook is a coroutine of the one event loop: it runs when no
\* handler holds the loop
Arrive(t) ==
    /\ arrived < MaxUpdates
    /\ running = 0
    /\ Free(t)
    /\ \A s \in TaskIds : s < t => ~ Free(s)
    /\ arrived' = arrived + 1
    /\ \/ \E m \in Messages :
            tasks' = [tasks EXCEPT ![t] = NewMessage(arrived + 1, m[1], m[2])]
       \/ \E p \in Presses :
            tasks' = [tasks EXCEPT ![t] =
                        NewCallback(arrived + 1, p[1], p[2], p[3], p[4])]
       \/ \E c \in Commands :
            tasks' = [tasks EXCEPT ![t] = NewCommand(arrived + 1, c[1], c[2], c[3])]
    /\ UNCHANGED <<rateVars, running, ticketVars, store>>

\* a text message arrives
ArriveMessage(t) ==
    /\ arrived < MaxUpdates
    /\ running = 0
    /\ Free(t)
    /\ \A s \in TaskIds : s < t => ~ Free(s)
    /\ arrived' = arrived + 1
    /\ \E u \in Identities :
         tasks' = [tasks EXCEPT ![t] = NewMessage(arrived + 1, u, "note 1")]
    /\ UNCHANGED <<rateVars, running, ticketVars, store>>

\* line 802: the tasks asyncio.create_task has made take their first step
\* in the order of their creation (the loop's queue of ready tasks is first
\* in, first out); a button press awaits at once (line 1381), so only the
\* handlers of messages and commands have a first step to order
Starting(t) == tasks[t].pc \in {"m_start", "k_start"}
FirstToStart(t) ==
    \A s \in TaskIds : Starting(s) => tasks[s].seq >= tasks[t].seq

\* lines 1229-1248: rate limit, authorization, start of the classification
\* the checks handle_message has made, with their results, in order
Checked(tk, results) == [tk EXCEPT !.checks = @ \o results]

\* self.requests keyed by one list for every identity
RequestsSharedAfter(reqs, user_id, t) ==
    [b \in DOMAIN reqs |-> AfterIsAllowed(reqs[user_id], t)]

\* self.requests after is_allowed(user_id) at time t: the list of user_id
\* alone is pruned and extended
RequestsAfter(reqs, user_id, t) ==
    [reqs EXCEPT ![user_id] = AfterIsAllowed(reqs[user_id], t)]

MsgStart(t) ==
    /\ tasks[t].kind = "msg"
    /\ tasks[t].pc = "m_start"
    /\ running = 0
    /\ FirstToStart(t)
    /\ requests' = RequestsAfter(requests, tasks[t].user, now)
    /\ IF ~ is_allowed(requests[tasks[t].user], now)
       THEN /\ tasks' = [tasks EXCEPT ![t] =
                            Goto(Checked(tasks[t], <<"rate_no">>), "m_rate_reply")]
            /\ running' = 0
       ELSE \E sheetOk \in BOOLEAN :
              IF is_authorized_user(tasks[t].user, sheetOk)
              THEN /\ tasks' = [tasks EXCEPT ![t] =
                        StartParse(Checked(tasks[t], <<"rate_ok", "auth_ok">>))]
                   /\ running' = t
              ELSE /\ tasks' = [tasks EXCEPT ![t] =
                        Goto(Checked(tasks[t], <<"rate_ok", "auth_no">>),
                             "m_unauth_reply")]
                   /\ running' = 0
    /\ UNCHANGED <<now, lastCall, lastAdmitAt, lastRejectAt, ticketVars, store,
                   arrived>>

\* lines 1343-1346: the ticket is stored
IssueTicket(text, seq) ==
    /\ CLARIFICATION_TEXTS' =
          [CLARIFICATION_TEXTS EXCEPT ![generate_text_id(text)] = text]
    /\ issuedFor' = [issuedFor EXCEPT ![generate_text_id(text)] = @ \cup {text}]
    /\ resolvedIds' = resolvedIds \ {generate_text_id(text)}
    /\ ticketOwner' = [ticketOwner EXCEPT ![generate_text_id(text)] = seq]

\* the LLM's responses offered to the handlers
MainConfidences == {JFloat(59), JFloat(60), JFloat(100)}
MainCategories == {JStr(c) : c \in Categories} \cup {JStr("nap"), JMissing}
MainData ==
    {[NoData EXCEPT !.category = c, !.confidence = JFloat(60)] : c \in MainCategories}
    \cup {[NoData EXCEPT !.category = JStr("sleep"), !.confidence = f] :
             f \in MainConfidences}
MainResponses ==
    {LLMResponse(TRUE, <<"P">>, NoData)} \cup
    {LLMResponse(FALSE, <<"P", "O">>, data) : data \in MainData}

\* lines 1250-1267 with lines 1284, 1298, 1315 and 1343-1346: the gate, then
\* the ticket or the save, up to the first await; tk is the task as
\* parse_message left it
Gate(t, tk) ==
    IF tk.pc = "pm_raised"
    THEN /\ tasks' = [tasks EXCEPT ![t] = Goto(Forget(tk), "m_err_reply")]
         /\ running' = 0
         /\ UNCHANGED <<ticketVars, store>>
    ELSE IF LowConfidence(tk.parsed)
    THEN /\ IssueTicket(tk.text, tk.seq)
         /\ tasks' = [tasks EXCEPT ![t] =
               [tk EXCEPT !.gate = "clarify",
                          !.text_id = generate_text_id(tk.text),
                          !.pc = "m_clarify_reply"]]
         /\ running' = 0
         /\ UNCHANGED store
    ELSE IF RouteOf(tk.parsed.category) = "question"
    THEN /\ tasks' = [tasks EXCEPT ![t] =
               [tk EXCEPT !.gate = "auto", !.route = "question",
                          !.qattempt = 0, !.pc = "q_call"]]
         /\ running' = t
         /\ UNCHANGED <<ticketVars, store>>
    ELSE LET routed == [tk EXCEPT !.gate = "auto", !.text = "",
                                  !.route = RouteOf(tk.parsed.category)]
         IN  /\ \E saveOk \in BOOLEAN :
                  IF saveOk
                  THEN /\ store' = Append(store, RecordRow(routed))
                       /\ tasks' = [tasks EXCEPT ![t] =
                             Goto(Wrote(routed), "m_confirm_reply")]
                  ELSE /\ store' = store
                       /\ tasks' = [tasks EXCEPT ![t] =
                             Goto(routed, "m_saveerr_reply")]
             /\ running' = 0
             /\ UNCHANGED ticketVars

\* lines 1209-1225: parse_message has returned to cmd_test_ai, which
\* formats the result (or the text of the exception) and awaits the reply
CmdParsed(t, tk) ==
    /\ tasks' = [tasks EXCEPT ![t] =
          IF tk.pc = "pm_raised"
          THEN [Forget(tk) EXCEPT !.answer = "raw_error", !.pc = "k_err_reply"]
          ELSE [Forget(tk) EXCEPT !.answer = "ai_result", !.pc = "k_reply"]]
    /\ running' = 0
    /\ UNCHANGED <<ticketVars, store>>

\* line 1248 and on: tk is the task after an attempt or a sleep of
\* parse_message; when parse_message has returned the gate follows at once
Classified(t, tk) ==
    IF tk.pc \in {"pm_call", "pm_sleep"}
    THEN /\ tasks' = [tasks EXCEPT ![t] = tk]
         /\ running' = t
         /\ UNCHANGED <<ticketVars, store>>
    ELSE IF tk.kind = "cmd" THEN CmdParsed(t, EndParse(tk))
    ELSE Gate(t, EndParse(tk))

MsgClassify(t, R) ==
    /\ tasks[t].kind \in {"msg", "cmd"}
    /\ tasks[t].pc = "pm_call"
    /\ running = t
    /\ \E r \in R : Classified(t, AfterAttempt(tasks[t], r))
    /\ UNCHANGED <<rateVars, arrived>>

MsgSleep(t) ==
    /\ tasks[t].kind \in {"msg", "cmd"}
    /\ tasks[t].pc = "pm_sleep"
    /\ running = t
    /\ Classified(t, AfterSleep(tasks[t]))
    /\ UNCHANGED <<rateVars, arrived>>

\* the lengths of the LLM's answers to a question, and a failed call (-1)
AnswerLengths == {-1, 0, 20, 50, 51, 999, 1000, 1500}
\* the lengths offered while other updates are handled
MainAnswerLengths == {-1, 20, 51}

\* mutant of AcceptedLength: the bounds are accepted too
AcceptedLengthInclusive(len) == len >= 50 /\ len <= 1000

\* line 957
AcceptedLength(len) == len > 50 /\ len < 1000

\* lines 866-867 before the first attempt, then lines 941-967: one attempt
\* of generate_smart_answer; data tells whether the summaries read from the
\* sheets hold data (an error while reading gives empty summaries, line 435)
QCall(t, Lens, DataOutcomes) ==
    /\ tasks[t].pc = "q_call"
    /\ running = t
    /\ \E len \in Lens, data \in DataOutcomes :
         LET tk == IF tasks[t].qattempt = 0
                   THEN [tasks[t] EXCEPT !.retrieved = data, !.read = TRUE]
                   ELSE tasks[t]
             replyPc == IF tk.kind = "msg" THEN "m_q_reply" ELSE "c_q_reply"
         IN  IF len = -1 /\ tk.qattempt # 1
             THEN tasks' = [tasks EXCEPT ![t] = Goto(tk, "q_sleep")]
             ELSE tasks' = [tasks EXCEPT ![t] =
                     [tk EXCEPT !.answer = IF len # -1 /\ AcceptedLength(len)
                                           THEN "ai" ELSE "fallback",
                                !.alen = len,
                                !.pc = replyPc]]
    /\ running' = 0
    /\ UNCHANGED <<rateVars, ticketVars, store, arrived>>

\* line 965: asyncio.sleep(1) is over
QWake(t) ==
    /\ tasks[t].pc = "q_sleep"
    /\ running = 0
    /\ tasks' = [tasks EXCEPT ![t] = [tasks[t] EXCEPT !.qattempt = @ + 1,
                                                      !.pc = "q_call"]]
    /\ running' = t
    /\ UNCHANGED <<rateVars, ticketVars, store, arrived>>

\* handle_message and its callees after an awaited reply: ok tells whether
\* the reply was delivered, saveOk whether save_qa_log succeeded
MsgAfterReply(tk, ok, saveOk) ==
    CASE tk.pc = "m_rate_reply" ->       \* line 1235
           IF ok THEN Step(Finish(Replied(tk, "too_many")))
           ELSE Step(Goto(tk, "m_err_reply"))
      [] tk.pc = "m_unauth_reply" ->     \* line 1241
           IF ok THEN Step(Finish(Replied(tk, "unauthorized")))
           ELSE Step(Goto(tk, "m_err_reply"))
      [] tk.pc = "m_clarify_reply" ->    \* line 1364
           IF ok THEN Step(Finish(Replied(tk, "clarify")))
           ELSE Step(Goto(tk, "m_clarify_err_reply"))
      [] tk.pc = "m_clarify_err_reply" ->  \* line 1374
           IF ok THEN Step(Finish(Replied(tk, "error")))
           ELSE Step(Goto(tk, "m_err_reply"))
      [] tk.pc = "m_confirm_reply" ->    \* lines 1290, 1307, 1321
           IF ok THEN Step(Finish(Replied(tk, "confirm")))
           ELSE Step(Goto(tk, "m_saveerr_reply"))
      [] tk.pc = "m_saveerr_reply" ->    \* lines 1293, 1310, 1324
           IF ok THEN Step(Finish(Replied(tk, "save_error")))
           ELSE Step(Goto(tk, "m_err_reply"))
      [] tk.pc = "m_q_reply" ->          \* lines 1331-1334
           IF ok /\ saveOk
           THEN StepRow(Finish(Wrote(Replied(tk, "answer"))), QARow(tk, TRUE))
           ELSE IF ok THEN Step(Goto(Replied(tk, "answer"), "m_q_fb_reply"))
           ELSE Step(Goto(tk, "m_q_fb_reply"))
      [] tk.pc = "m_q_fb_reply" ->       \* lines 1338-1339
           IF ok /\ saveOk
           THEN StepRow(Finish(Wrote(Replied(tk, "q_fallback"))), QARow(tk, FALSE))
           ELSE IF ok THEN Step(Goto(Replied(tk, "q_fallback"), "m_err_reply"))
           ELSE Step(Goto(tk, "m_err_reply"))
      [] OTHER ->                        \* lines 1269-1279: the error reply;
           \* notify_admins, awaited next, reads and writes nothing of the model
           IF ok THEN Step(Finish(Replied(tk, "error")))
           ELSE Step(Crash(tk))

MsgAwaits == {"m_rate_reply", "m_unauth_reply", "m_clarify_reply",
              "m_clarify_err_reply", "m_confirm_reply", "m_saveerr_reply",
              "m_q_reply", "m_q_fb_reply", "m_err_reply"}

MsgResume(t) ==
    /\ tasks[t].kind = "msg"
    /\ tasks[t].pc \in MsgAwaits
    /\ running = 0
    /\ \E ok \in BOOLEAN, saveOk \in BOOLEAN :
         LET step == MsgAfterReply(tasks[t], ok, saveOk)
         IN  /\ tasks' = [tasks EXCEPT ![t] = Forget(step.tk)]
             /\ store' = store \o step.rows
    /\ UNCHANGED <<rateVars, running, ticketVars, arrived>>

\* lines 1097-1225: cmd_today, cmd_week, cmd_export and cmd_test_ai up to
\* their first await; data tells whether the summary read from the sheets
\* is non-empty (an error while reading gives the empty summary, line 435)
CmdStart(t) ==
    /\ tasks[t].kind = "cmd"
    /\ tasks[t].pc = "k_start"
    /\ running = 0
    /\ FirstToStart(t)
    /\ LET tk == tasks[t]
       IN  IF tk.code \in {"today", "week"}              \* lines 1100, 1151
           THEN /\ \E data \in BOOLEAN :
                     tasks' = [tasks EXCEPT ![t] =
                        [Forget(tk) EXCEPT !.read = TRUE,
                                           !.answer = IF data THEN "summary"
                                                      ELSE "no_data",
                                           !.pc = "k_reply"]]
                /\ running' = 0
           ELSE IF tk.code = "export"                     \* lines 1199-1200
           THEN /\ tasks' = [tasks EXCEPT ![t] =
                        [Forget(tk) EXCEPT !.answer = "link", !.pc = "k_reply"]]
                /\ running' = 0
           ELSE IF tk.text = ""                           \* lines 1204-1206
           THEN /\ tasks' = [tasks EXCEPT ![t] =
                        [Forget(tk) EXCEPT !.answer = "usage", !.pc = "k_reply"]]
                /\ running' = 0
           ELSE /\ tasks' = [tasks EXCEPT ![t] = StartParse(tk)]   \* line 1210
                /\ running' = t
    /\ UNCHANGED <<rateVars, ticketVars, store, arrived>>

\* a command handler after an awaited reply: the replies of cmd_today,
\* cmd_week and of the try block of cmd_test_ai have an except clause that
\* sends an error message; the other replies have none
CmdAfterReply(tk, ok) ==
    CASE tk.pc = "k_reply" ->
           IF ok THEN Finish(Replied(tk, tk.answer))
           ELSE IF tk.answer \in {"summary", "no_data", "ai_result"}
           THEN Goto(tk, "k_err_reply")
           ELSE Crash(tk)
      [] OTHER ->                         \* lines 1144-1146, 1193-1195, 1223-1225
           IF ok THEN Finish(Replied(tk, IF tk.answer \in {"summary", "no_data"}
                                         THEN "summary_error" ELSE "raw_error"))
           ELSE Crash(tk)

CmdResume(t) ==
    /\ tasks[t].kind = "cmd"
    /\ tasks[t].pc \in {"k_reply", "k_err_reply"}
    /\ running = 0
    /\ \E ok \in BOOLEAN :
         tasks' = [tasks EXCEPT ![t] = CmdAfterReply(tasks[t], ok)]
    /\ UNCHANGED <<rateVars, running, ticketVars, store, arrived>>

\* lines 1380-1422: query.answer() is over; the lookup, the corrected
\* message, the authorization and the save, up to the next await
CbAfterAnswer(tk, ok, sheetOk, saveOk) ==
    LET category == category_map(tk.code)
        original_text == CLARIFICATION_TEXTS[tk.text_id]
        looked == [tk EXCEPT !.sawResolved = tk.text_id \in resolvedIds,
                             !.ticket = ticketOwner[tk.text_id]]
        corrected == [looked EXCEPT !.text = original_text,
                                    !.hasParsed = TRUE,
                                    !.parsed = CorrectedParsed(category, original_text)]
        routed == [corrected EXCEPT !.route = CallbackRouteOf(category)]
    IN  IF ~ ok THEN Step(Goto(Forget(tk), "c_err_reply"))
        ELSE IF ~ tk.colon THEN Step(Finish(tk))
        ELSE IF original_text = "" THEN Step(Goto(Forget(looked), "c_notfound_reply"))
        ELSE IF ~ is_authorized_user(tk.user, sheetOk)
        THEN Step(Goto(corrected, "c_unauth_reply"))
        ELSE IF routed.route = "question"
        THEN Step([routed EXCEPT !.qattempt = 0, !.pc = "q_call"])
        ELSE IF saveOk
        THEN StepRow(Goto(Wrote(routed), "c_confirm_reply"),
                     RecordRow(routed))
        ELSE Step(Goto(routed, "c_saveerr_reply"))

CbAnswered(t) ==
    /\ tasks[t].kind = "cb"
    /\ tasks[t].pc = "c_answer"
    /\ running = 0
    /\ \E ok \in BOOLEAN, sheetOk \in BOOLEAN, saveOk \in BOOLEAN :
         LET step == CbAfterAnswer(tasks[t], ok, sheetOk, saveOk)
         IN  /\ tasks' = [tasks EXCEPT ![t] = step.tk]
             /\ store' = store \o step.rows
             /\ running' = IF step.tk.pc = "q_call" THEN t ELSE 0
    /\ UNCHANGED <<rateVars, ticketVars, arrived>>

\* handle_callback and its callees after an awaited edit of the message
CbAfterReply(tk, ok, saveOk) ==
    CASE tk.pc = "c_notfound_reply" ->   \* lines 1396-1397
           IF ok THEN Step(Finish(Replied(tk, "not_found")))
           ELSE Step(Goto(tk, "c_err_reply"))
      [] tk.pc = "c_unauth_reply" ->     \* lines 1411-1412
           IF ok THEN Step(Finish(Replied(tk, "cb_unauthorized")))
           ELSE Step(Goto(tk, "c_err_reply"))
      [] tk.pc = "c_confirm_reply" ->    \* lines 1438, 1447, 1458, then 1425
           IF ok THEN Popping(Step(Finish(Replied(tk, "cb_confirm"))))
           ELSE Step(Goto(tk, "c_saveerr_reply"))
      [] tk.pc = "c_saveerr_reply" ->    \* lines 1441, 1450, 1461, then 1425
           IF ok THEN Popping(Step(Finish(Replied(tk, "cb_save_error"))))
           ELSE Step(Goto(tk, "c_err_reply"))
      [] tk.pc = "c_q_reply" ->          \* lines 1470-1476, then 1425
           IF ok /\ saveOk
           THEN Popping(StepRow(Finish(Wrote(Replied(tk, "cb_answer"))),
                                QARow(tk, TRUE)))
           ELSE IF ok THEN Step(Goto(Replied(tk, "cb_answer"), "c_q_err_reply"))
           ELSE Step(Goto(tk, "c_q_err_reply"))
      [] tk.pc = "c_q_err_reply" ->      \* line 1479, then 1425
           IF ok THEN Popping(Step(Finish(Replied(tk, "cb_q_error"))))
           ELSE Step(Goto(tk, "c_err_reply"))
      [] OTHER ->                        \* lines 1427-1432
           IF ok THEN Step(Finish(Replied(tk, "cb_error")))
           ELSE Step(Finish(tk))

CbAwaits == {"c_notfound_reply", "c_unauth_reply", "c_confirm_reply",
             "c_saveerr_reply", "c_q_reply", "c_q_err_reply", "c_err_reply"}

\* line 1425: CLARIFICATION_TEXTS.pop(text_id, None)
AfterPop(texts, text_id) == [texts EXCEPT ![text_id] = ""]

CbResume(t) ==
    /\ tasks[t].kind = "cb"
    /\ tasks[t].pc \in CbAwaits
    /\ running = 0
    /\ \E ok \in BOOLEAN, saveOk \in BOOLEAN :
         LET step == CbAfterReply(tasks[t], ok, saveOk)
             id == tasks[t].text_id
         IN  /\ tasks' = [tasks EXCEPT ![t] = Forget(step.tk)]
             /\ store' = store \o step.rows
             /\ CLARIFICATION_TEXTS' =
                   IF step.pop THEN AfterPop(CLARIFICATION_TEXTS, id)
                   ELSE CLARIFICATION_TEXTS
             /\ issuedFor' = IF step.pop THEN [issuedFor EXCEPT ![id] = {}]
                             ELSE issuedFor
             /\ resolvedIds' = IF step.tk.pc = "done" /\ step.tk.wrote > 0
                               THEN resolvedIds \cup {id} ELSE resolvedIds
             /\ ticketOwner' = IF step.pop /\ tasks[t].ticket = ticketOwner[id]
                               THEN [ticketOwner EXCEPT ![id] = 0]
                               ELSE ticketOwner
    /\ UNCHANGED <<rateVars, running, arrived>>

\* The process has been running: each identity has made max_requests - 2
\* calls in the current second and their handlers have ended without a row
\* or a ticket, so that the third message of an identity is rate limited.
BusyWindow == [i \in 1..(max_requests - 2) |-> 0]

Init ==
    /\ now = 0
    /\ requests = [u \in Identities |-> BusyWindow]
    /\ lastCall = NoCall
    /\ lastAdmitAt = [u \in Identities |-> -1]
    /\ lastRejectAt = [u \in Identities |-> -1]
    /\ tasks = [t \in TaskIds |-> IdleTask]
    /\ running = 0
    /\ CLARIFICATION_TEXTS = [i \in TextIds |-> ""]
    /\ store = <<>>
    /\ arrived = 0
    /\ issuedFor = [i \in TextIds |-> {}]
    /\ resolvedIds = {}
    /\ ticketOwner = [i \in TextIds |-> 0]

Next ==
    \/ \E t \in TaskIds : Arrive(t)
    \/ \E t \in TaskIds : MsgStart(t)
    \/ \E t \in TaskIds : MsgClassify(t, MainResponses)
    \/ \E t \in TaskIds : MsgSleep(t)
    \/ \E t \in TaskIds : QCall(t, MainAnswerLengths, BOOLEAN)
    \/ \E t \in TaskIds : QWake(t)
    \/ \E t \in TaskIds : MsgResume(t)
    \/ \E t \in TaskIds : CbAnswered(t)
    \/ \E t \in TaskIds : CbResume(t)
    \/ \E t \in TaskIds : CmdStart(t)
    \/ \E t \in TaskIds : CmdResume(t)

Spec == Init /\ [][Next]_vars

\* ------------------------------------------------------------------------
\* The handling of text messages alone, while time passes (between two
\* steps of the event loop, never inside a call that does not await)
\* ------------------------------------------------------------------------
TimePasses == running = 0 /\ Tick /\ now' = now + window_seconds

\* the LLM's responses offered here: a failed call, a sleep report of
\* confidence 0.59 and of confidence 0.6, and a question
MessageResponses ==
    {LLMResponse(TRUE, <<"P">>, NoData)} \cup
    {LLMResponse(FALSE, <<"P", "O">>,
                 [NoData EXCEPT !.category = JStr("sleep"), !.confidence = f]) :
        f \in {JFloat(59), JFloat(60)}} \cup
    {LLMResponse(FALSE, <<"P", "O">>,
                 [NoData EXCEPT !.category = JStr("question"),
                                !.confidence = JFloat(60)])}

NextMessages ==
    \/ TimePasses
    \/ \E t \in TaskIds : ArriveMessage(t)
    \/ \E t \in TaskIds : MsgStart(t)
    \/ \E t \in TaskIds : MsgClassify(t, MessageResponses)
    \/ \E t \in TaskIds : MsgSleep(t)
    \/ \E t \in TaskIds : QCall(t, MainAnswerLengths, {TRUE})
    \/ \E t \in TaskIds : QWake(t)
    \/ \E t \in TaskIds : MsgResume(t)

SpecMessages == Init /\ [][NextMessages]_vars

\* ------------------------------------------------------------------------
\* Question answering on its own: a question sent as a message is about to
\* be answered while the answer to a question chosen by a button press
\* waits for its second attempt; the ticket of the press was issued by the
\* first update
\* ------------------------------------------------------------------------
QuestionData ==
    [NoData EXCEPT !.category = JStr("question"), !.confidence = JFloat(60)]

InitAnswer ==
    /\ now = 0
    /\ requests = [u \in Identities |->
                     IF u \in AuthorizedUsers THEN BusyWindow \o <<0, 0>>
                     ELSE BusyWindow]
    /\ lastCall = NoCall
    /\ lastAdmitAt = [u \in Identities |-> -1]
    /\ lastRejectAt = [u \in Identities |-> -1]
    /\ \E data \in BOOLEAN :
         tasks = [t \in TaskIds |->
                    IF t = 1
                    THEN [IdleTask EXCEPT
                            !.kind = "msg", !.pc = "q_call", !.seq = 2,
                            !.user = "u1", !.text = "note 83920",
                            !.hasParsed = TRUE, !.llmData = QuestionData,
                            !.parsed = BuildParsedMessage(QuestionData),
                            !.gate = "auto", !.route = "question"]
                    ELSE IF t = 2
                    THEN [IdleTask EXCEPT
                            !.kind = "cb", !.pc = "q_sleep", !.seq = 3,
                            !.user = "u1", !.colon = TRUE, !.code = "q",
                            !.text_id = generate_text_id("note 47428"),
                            !.text = "note 47428", !.hasParsed = TRUE,
                            !.parsed = CorrectedParsed("question", "note 47428"),
                            !.route = "question", !.ticket = 1,
                            !.retrieved = data, !.read = TRUE]
                    ELSE IdleTask]
    /\ running = 1
    /\ CLARIFICATION_TEXTS =
          [i \in TextIds |-> IF i = generate_text_id("note 47428")
                             THEN "note 47428" ELSE ""]
    /\ store = <<>>
    /\ arrived = MaxUpdates
    /\ issuedFor = [i \in TextIds |-> IF i = generate_text_id("note 47428")
                                      THEN {"note 47428"} ELSE {}]
    /\ resolvedIds = {}
    /\ ticketOwner = [i \in TextIds |-> IF i = generate_text_id("note 47428")
                                        THEN 1 ELSE 0]

NextAnswer ==
    \/ \E t \in TaskIds : QCall(t, AnswerLengths, BOOLEAN)
    \/ \E t \in TaskIds : QWake(t)
    \/ \E t \in TaskIds : MsgResume(t)
    \/ \E t \in TaskIds : CbResume(t)

SpecAnswer == InitAnswer /\ [][NextAnswer]_vars

\* ------------------------------------------------------------------------
\* Claims on question answering (checked under SpecAnswer)
\* ------------------------------------------------------------------------
Range(seq) == {seq[i] : i \in 1..Len(seq)}
\* the rows update number n has appended
RowsOf(n) == {i \in 1..Len(store) : store[i].update = n}

\* C19: the answer generate_smart_answer returns is the response of the LLM
\* only if that response is longer than 50 and shorter than 1000
\* characters; for every other length, and when the LLM call has failed on
\* both of its 2 attempts, it is the fallback summary; no more than 2 LLM
\* calls are made and none after the answer was chosen.
C19_AcceptedLengthOrFallback ==
    \A t \in TaskIds :
        LET k == tasks[t]
        IN  /\ k.pc \in {"q_call", "q_sleep"} => k.qattempt \in {0, 1} /\ k.answer = ""
            /\ k.pc \in {"m_q_reply", "c_q_reply"} =>
                  /\ k.answer \in {"ai", "fallback"}
                  /\ k.answer = "ai" <=> (k.alen > 50 /\ k.alen < 1000)
                  /\ k.qattempt \in {0, 1}
                  /\ k.alen = -1 => k.qattempt = 1
            /\ k.answer # "" => k.pc \in {"m_q_reply", "c_q_reply"}

\* a response of 20 characters was replaced by the fallback summary, while
\* the other question got the fallback summary after its second failed call
C19_Witness ==
    \E t1 \in TaskIds, t2 \in TaskIds :
        /\ tasks[t1].pc = "m_q_reply" /\ tasks[t1].alen = 20
        /\ tasks[t1].answer = "fallback"
        /\ tasks[t2].pc = "c_q_reply" /\ tasks[t2].alen = -1
        /\ tasks[t2].qattempt = 1 /\ tasks[t2].answer = "fallback"

\* the update has sent an answer to its question
Answered(k) ==
    Range(k.replies) \cap {"answer", "q_fallback", "cb_answer"} # {}

\* C20 as stated: every answer given to a question, on the direct path and
\* on the clarification path, is logged as one Q&A_Log row, and the row's
\* backed_by_data flag is TRUE only when data was retrieved for the answer.
C20_AsStated ==
    /\ [](\A t \in TaskIds :
            (tasks[t].route = "question" /\ tasks[t].pc = "done"
               /\ Answered(tasks[t])) =>
                  Cardinality(RowsOf(tasks[t].seq)) = 1)
    /\ [][\A t \in TaskIds :
            (tasks[t].pc \in {"m_q_reply", "c_q_reply"}
               /\ tasks'[t].wrote = tasks[t].wrote + 1) =>
                  (store'[Len(store')].backed_by_data => tasks[t].retrieved)]_vars

\* ------------------------------------------------------------------------
\* save_sleep on its own, on every pair of times and every duration_min
\* ------------------------------------------------------------------------
TimeValues == {JStr(text) : text \in TimeTexts} \cup {JNull, JStr(""), JInt(7)}
DurationMinValues == {JNull, JInt(45), JInt(119), JInt(120), JInt(200)}

InitSleep ==
    /\ now = 0
    /\ requests = [u \in Identities |-> <<>>]
    /\ lastCall = NoCall
    /\ lastAdmitAt = [u \in Identities |-> -1]
    /\ lastRejectAt = [u \in Identities |-> -1]
    /\ \E start \in TimeValues, end \in TimeValues, minutes \in DurationMinValues :
         tasks = [t \in TaskIds |->
                    IF t = 1
                    THEN [IdleTask EXCEPT
                            !.kind = "save", !.pc = "save_sleep", !.seq = 1,
                            !.user = "u1", !.route = "sleep", !.hasParsed = TRUE,
                            !.parsed = [ParsedMessage EXCEPT
                                          !.category = "sleep", !.confidence = 100,
                                          !.start_time = start, !.end_time = end,
                                          !.duration_min = minutes]]
                    ELSE IdleTask]
    /\ running = 1
    /\ CLARIFICATION_TEXTS = [i \in TextIds |-> ""]
    /\ store = <<>>
    /\ arrived = 1
    /\ issuedFor = [i \in TextIds |-> {}]
    /\ resolvedIds = {}
    /\ ticketOwner = [i \in TextIds |-> 0]

\* lines 520-552: save_sleep appends its row, or raises when the sheet
\* cannot be written
SaveSleep ==
    /\ tasks[1].pc = "save_sleep"
    /\ \E saveOk \in BOOLEAN :
         IF saveOk
         THEN /\ store' = Append(store, RecordRow(tasks[1]))
              /\ tasks' = [tasks EXCEPT ![1] = Goto(Wrote(tasks[1]), "saved")]
         ELSE /\ store' = store
              /\ tasks' = [tasks EXCEPT ![1] = Goto(tasks[1], "save_raised")]
    /\ UNCHANGED <<rateVars, running, ticketVars, arrived>>

NextSleep == SaveSleep

SpecSleep == InitSleep /\ [][NextSleep]_vars

\* ------------------------------------------------------------------------
\* Claims on save_sleep (checked under SpecSleep)
\* ------------------------------------------------------------------------
\* the text is a valid HH:MM value
ValidTime(v) == v.t = "str" /\ strptime(v.s) >= 0
\* the sleep row that has been written for the message of task 1
SleepSaved == tasks[1].pc = "saved" /\ Len(store) = 1

\* C17 as stated: whenever start_time and end_time are both valid HH:MM
\* values the duration written is end - start in minutes, 24 hours added
\* when end < start; it is a number of 0..1439, also when start = end.
C17_AsStated ==
    LET p == tasks[1].parsed
        a == strptime(p.start_time.s)
        b == strptime(p.end_time.s)
    IN  (SleepSaved /\ ValidTime(p.start_time) /\ ValidTime(p.end_time)) =>
           /\ store[1].duration = JInt(IF b < a THEN b - a + 24 * 60 ELSE b - a)
           /\ store[1].duration.t = "int"
           /\ store[1].duration.n >= 0 /\ store[1].duration.n <= 1439 * 100

\* the part of C17 that the code keeps: the duration written for two
\* valid times that differ
C17_DifferentTimes ==
    LET p == tasks[1].parsed
        a == strptime(p.start_time.s)
        b == strptime(p.end_time.s)
    IN  (SleepSaved /\ ValidTime(p.start_time) /\ ValidTime(p.end_time) /\ a # b) =>
           /\ store[1].duration = JInt(IF b < a THEN b - a + 24 * 60 ELSE b - a)
           /\ store[1].duration.n >= 100 /\ store[1].duration.n <= 1439 * 100

\* the duration of the session the message describes: the one of its two
\* times, else its duration_min, else none (-1)
SessionMinutes(p) ==
    IF ValidTime(p.start_time) /\ ValidTime(p.end_time)
    THEN (strptime(p.end_time.s) - strptime(p.start_time.s) + 24 * 60) % (24 * 60)
    ELSE IF p.duration_min.t = "int" THEN p.duration_min.n \div 100
    ELSE -1

\* C18 as stated: the session is labelled a short nap exactly when its
\* duration in minutes is below 120 and a full sleep otherwise, for every
\* duration, 0 included, and for a message that carries only duration_min.
C18_AsStated ==
    LET d == SessionMinutes(tasks[1].parsed)
    IN  SleepSaved =>
           store[1].kind = IF d >= 0 /\ d < 120 THEN "nap" ELSE "sleep"

\* the part of C18 that the code keeps: a session given by two valid times
\* that differ is a short nap exactly when it is shorter than 120 minutes
C18_DifferentTimes ==
    LET p == tasks[1].parsed
        d == SessionMinutes(p)
    IN  (SleepSaved /\ ValidTime(p.start_time) /\ ValidTime(p.end_time) /\ d # 0) =>
           store[1].kind = IF d < 120 THEN "nap" ELSE "sleep"

\* ------------------------------------------------------------------------
\* Claims on the handlers (checked under Spec)
\* ------------------------------------------------------------------------

\* C1: a classified message whose confidence is 0.6 or more is auto-filed,
\* routed by the classifier's category, and no clarification is requested
\* for it; one whose confidence is below 0.6 gets a clarification ticket and
\* is not routed nor written; the boundary 0.6 auto-files.
C1_ConfidenceGate ==
    \A t \in TaskIds :
        LET k == tasks[t]
        IN  k.kind = "msg" =>
              /\ (k.hasParsed /\ k.parsed.confidence >= 60) =>
                    /\ k.gate = "auto"
                    /\ k.route = RouteOf(k.parsed.category)
              /\ (k.hasParsed /\ k.parsed.confidence < 60) =>
                    /\ k.gate = "clarify"
                    /\ k.text_id = generate_text_id(k.text)
              /\ k.gate = "auto" => k.text_id = "" /\ "clarify" \notin Range(k.replies)
              /\ k.gate = "clarify" => k.route = "" /\ k.wrote = 0
              /\ (k.route # "" \/ k.wrote > 0) => k.gate = "auto"
              /\ (k.text_id # "" \/ "clarify" \in Range(k.replies)) => k.gate = "clarify"

\* a message of confidence exactly 0.6 that was filed, while a message of
\* confidence 0.59 waits with its clarification request
C1_Witness ==
    \E t1 \in TaskIds, t2 \in TaskIds :
        /\ tasks[t1].kind = "msg" /\ tasks[t1].hasParsed
        /\ tasks[t1].parsed.confidence = 60
        /\ tasks[t1].gate = "auto" /\ tasks[t1].wrote = 1
        /\ tasks[t2].kind = "msg" /\ tasks[t2].hasParsed
        /\ tasks[t2].parsed.confidence = 59
        /\ tasks[t2].pc = "m_clarify_reply"

\* C7: every ParsedMessage that is constructed, by the classifier from a
\* response, by the classifier's fallback or by a button press with any
\* callback code, has one of the six categories; a category the LLM left out
\* or that is not one of the six becomes other.
C7_CategoryIsOneOfSix ==
    \A t \in TaskIds :
        LET k == tasks[t]
        IN  k.hasParsed =>
              /\ k.parsed.category \in Categories
              /\ (k.kind = "msg" /\ ~ k.usedFallback) =>
                    k.parsed.category =
                       IF k.llmData.category \in {JStr(c) : c \in Categories}
                       THEN k.llmData.category.s ELSE "other"

\* a button press with a code that is not in the map was made a message of
\* category other, while a message the LLM called "nap" was classified other
C7_Witness ==
    \E t1 \in TaskIds, t2 \in TaskIds :
        /\ tasks[t1].kind = "cb" /\ tasks[t1].hasParsed
        /\ tasks[t1].code = "x" /\ tasks[t1].parsed.category = "other"
        /\ tasks[t2].kind = "msg" /\ tasks[t2].hasParsed
        /\ tasks[t2].llmData.category = JStr("nap")
        /\ tasks[t2].parsed.category = "other"

\* a JSON number, finite or not
IsJSONNumber(v) == v.t \in {"int", "float", "nan", "inf"}

\* C8 as stated: every ParsedMessage has a confidence in [0,1]; a confidence
\* of the LLM that is missing, not a number, below 0 or above 1 is replaced
\* by 0.5; the fallback carries 0.3 and a message resolved by the user 1.0.
C8_AsStated ==
    \A t \in TaskIds :
        LET k == tasks[t]
            f == k.llmData.confidence
        IN  k.hasParsed =>
              /\ k.parsed.confidence >= 0 /\ k.parsed.confidence <= 100
              /\ k.usedFallback => k.parsed.confidence = 30
              /\ k.kind = "cb" => k.parsed.confidence = 100
              /\ (k.kind # "cb" /\ ~ k.usedFallback) =>
                    ((~ IsJSONNumber(f) \/ ~ Between(0, f, 100)) =>
                        k.parsed.confidence = 50)

\* C9 as stated: a low-confidence message produces a ticket; a button press
\* that finds the ticket yields a ParsedMessage of the chosen category and
\* confidence 1.0 and is routed by that category; once a resolution has
\* written its record and ended, a later press with the same identifier
\* does not find the text and writes nothing.
C9_AsStated ==
    \A t \in TaskIds :
        LET k == tasks[t]
        IN  /\ (k.kind = "msg" /\ k.gate = "clarify") => k.text_id # ""
            /\ (k.kind = "cb" /\ k.hasParsed) =>
                  /\ k.parsed.category = category_map(k.code)
                  /\ k.parsed.confidence = 100
                  /\ k.route \in {"", CallbackRouteOf(k.parsed.category)}
            /\ (k.kind = "cb" /\ k.sawResolved) =>
                  /\ k.route = ""
                  /\ k.wrote = 0
                  /\ "cb_confirm" \notin Range(k.replies)

\* the part of C9 that the code keeps: the ticket, and the corrected message
C9_TicketAndCorrection ==
    \A t \in TaskIds :
        LET k == tasks[t]
        IN  /\ (k.kind = "msg" /\ k.gate = "clarify") => k.text_id # ""
            /\ (k.kind = "cb" /\ k.hasParsed) =>
                  /\ k.parsed.category = category_map(k.code)
                  /\ k.parsed.confidence = 100
                  /\ k.route \in {"", CallbackRouteOf(k.parsed.category)}

\* C10 as stated: from the issue of a ticket for a text T until the ticket
\* is removed, the identifier maps to T, whatever other low-confidence
\* messages are handled in between.
C10_AsStated ==
    \A id \in TextIds :
        \A T \in issuedFor[id] : CLARIFICATION_TEXTS[id] = T

\* C11 as stated: a ticket is removed only by the resolution of its own
\* message: while the ticket of a message is outstanding (no button press
\* that looked that ticket up has completed), the identifier is in the
\* table, whatever other messages are handled and whatever earlier
\* resolutions complete in between.
C11_AsStated ==
    \A id \in TextIds : ticketOwner[id] # 0 => CLARIFICATION_TEXTS[id] # ""

\* the operation the specification names for each category
SpecifiedRoute(category) ==
    CASE category = "food" -> "food"
      [] category = "sleep" -> "sleep"
      [] category = "cry" -> "behavior"
      [] category = "behavior" -> "behavior"
      [] category = "other" -> "behavior"
      [] category = "question" -> "question"
\* the sheet the specification names for each operation
SpecifiedSheet(route) ==
    CASE route = "food" -> "Food"
      [] route = "sleep" -> "Sleep"
      [] route = "behavior" -> "Behavior"
      [] route = "question" -> "Q&A_Log"

\* C12: on the auto-file path and on the resolution path a message is
\* routed by its category alone: food to the food write, sleep to the sleep
\* write, cry and behavior to the behavior write, other (and a category that
\* is none of the six, which has become other) to the behavior write, and
\* question to question answering; every row an update appends is in the
\* sheet of its route, so a question is never written as a food, sleep or
\* behavior record.
C12_RoutingByCategory ==
    \A t \in TaskIds :
        LET k == tasks[t]
        IN  /\ (k.kind = "msg" /\ k.gate = "auto") => k.route # ""
            /\ (k.kind = "cb" /\ k.wrote > 0) => k.route # ""
            /\ k.route # "" =>
                  /\ k.route \in {"food", "sleep", "behavior", "question"}
                  /\ k.hasParsed => k.route = SpecifiedRoute(k.parsed.category)
                  /\ \A i \in 1..Len(store) :
                        store[i].update = k.seq =>
                           store[i].sheet = SpecifiedSheet(k.route)

\* a message the LLM called "nap" was filed as a behavior record, while a
\* button press that chose question has its answer and is about to send it
C12_Witness ==
    \E t1 \in TaskIds, t2 \in TaskIds :
        /\ tasks[t1].kind = "msg" /\ tasks[t1].hasParsed
        /\ tasks[t1].llmData.category = JStr("nap")
        /\ tasks[t1].route = "behavior" /\ tasks[t1].wrote = 1
        /\ \E i \in 1..Len(store) :
              store[i].update = tasks[t1].seq /\ store[i].sheet = "Behavior"
        /\ tasks[t2].kind = "cb" /\ tasks[t2].hasParsed
        /\ tasks[t2].parsed.category = "question"
        /\ tasks[t2].route = "question" /\ tasks[t2].pc = "c_q_reply"

\* the operations of the Record Router that write a record
RecordRoutes == {"food", "sleep", "behavior"}
Confirmed(k) == "confirm" \in Range(k.replies) \/ "cb_confirm" \in Range(k.replies)

C14_AsStated ==
    \A t \in TaskIds :
        LET k == tasks[t]
        IN  (k.kind # "none" /\ k.user \notin AuthorizedUsers) =>
               /\ k.pc \notin {"pm_call", "pm_sleep", "q_call", "q_sleep"}
               /\ ~ k.read
               /\ k.wrote = 0
               /\ Range(k.replies) \subseteq {"unauthorized", "cb_unauthorized"}

\* the task holds the event loop in a call that does not await: the LLM
\* call or the retry delay of the classifier, the LLM call of an answer
Blocking(t) ==
    running = t /\ tasks[t].pc \in {"pm_call", "pm_sleep", "q_call"}

\* C15 as stated: while the handler of one update is inside an LLM call or
\* the classifier's retry delay, the process can accept another update, and
\* the handler of every other update that has begun can take its next step.
C15_AsStated ==
    \A t \in TaskIds :
        Blocking(t) =>
           /\ arrived < MaxUpdates => ENABLED (\E s \in TaskIds : Arrive(s))
           /\ \A s \in TaskIds \ {t} :
                 ~ Free(s) =>
                    ENABLED (\/ MsgStart(s) \/ MsgResume(s) \/ QWake(s)
                             \/ CbAnswered(s) \/ CbResume(s)
                             \/ CmdStart(s) \/ CmdResume(s))

\* C16 as stated: the updates of one identity are processed in the order of
\* their arrival: of two rows of the store written for the same identity,
\* the row of the update that arrived first was written first.
C16_AsStated ==
    \A i \in 1..Len(store), j \in 1..Len(store) :
        (i < j /\ store[i].user = store[j].user) =>
            store[i].update <= store[j].update

\* the replies that carry the text of an exception: line 1225 sends
\* str(e) to the sender of /testai
DiagnosticReplies == {"raw_error"}

\* C21 as stated: in every handler, text message, button callback and each
\* command, the reply sent on a failure is a fixed short message; no reply
\* to a user carries the text of an exception.
C21_AsStated ==
    \A t \in TaskIds : Range(tasks[t].replies) \cap DiagnosticReplies = {}

\* ------------------------------------------------------------------------
\* Claims on the handling of text messages (checked under SpecMessages)
\* ------------------------------------------------------------------------
\* the task takes the first step of handle_message in this step
Starts(t) == tasks[t].pc = "m_start" /\ tasks'[t].pc # "m_start"
\* the admitted requests of an identity that are younger than the window
Young(u) == SelectSeq(requests[u], LAMBDA e : now - e < window_seconds)

\* C22: under every interleaving of the handlers, the window stored for an
\* identity never holds more than max_requests entries and never more than
\* max_requests of its messages were admitted in the last window_seconds;
\* the check and the record of is_allowed happen in one step of one
\* handler: a message is rejected exactly when max_requests admitted
\* requests of its identity are younger than the window, else its instant
\* is recorded, and no other step changes a window.
C22_RateLimitUnderInterleaving ==
    /\ [](\A u \in Identities :
            /\ Len(requests[u]) <= max_requests
            /\ Len(Young(u)) <= max_requests
            /\ \A i \in 1..Len(requests[u]) : requests[u][i] <= now)
    /\ [][/\ (\A t \in TaskIds : ~ Starts(t)) => requests' = requests
          /\ \A t \in TaskIds :
               Starts(t) =>
                  LET u == tasks[t].user
                  IN  IF Len(Young(u)) >= max_requests
                      THEN /\ tasks'[t].pc = "m_rate_reply"
                           /\ requests'[u] = Young(u)
                      ELSE /\ tasks'[t].pc # "m_rate_reply"
                           /\ requests'[u] = Append(Young(u), now)]_vars

\* a message is told "too many requests" while an earlier message of the
\* same identity, which took the last place of the window, waits for its
\* reply to be delivered
C22_Witness ==
    \E t1 \in TaskIds, t2 \in TaskIds :
        /\ tasks[t1].kind = "msg" /\ tasks[t2].kind = "msg"
        /\ tasks[t1].user = tasks[t2].user
        /\ tasks[t1].seq < tasks[t2].seq
        /\ tasks[t1].gate # "" /\ tasks[t1].pc \in MsgAwaits
        /\ tasks[t2].pc = "m_rate_reply"
        /\ Len(requests[tasks[t2].user]) = max_requests

\* C23: a handler's call of is_allowed for one identity leaves the window of
\* every other identity as it was, and a message is rejected only when the
\* window of its own identity holds max_requests entries younger than
\* window_seconds, whatever the other identities have sent.
C23_OtherWindowsUnchanged ==
    [][\A t \in TaskIds : Starts(t) =>
         /\ \A b \in Identities \ {tasks[t].user} : requests'[b] = requests[b]
         /\ tasks'[t].pc = "m_rate_reply" =>
              Len(Young(tasks[t].user)) >= max_requests]_vars

\* a message of one identity is admitted while the window of the other
\* identity is full
C23_Witness ==
    \E t \in TaskIds : \E b \in Identities \ {tasks[t].user} :
        /\ tasks[t].kind = "msg"
        /\ tasks[t].pc \in MsgAwaits
        /\ tasks[t].pc # "m_rate_reply"
        /\ Len(requests[b]) = max_requests
        /\ Len(requests[tasks[t].user]) < max_requests

\* C24: a text message causes an LLM call or a store write only after the rate
\* limiter has admitted it and the authorization lookup has then accepted its
\* listed sender; a rate-limited message causes no lookup, no LLM call and no
\* write; an unauthorized message causes no LLM call and no write, and has
\* taken one entry of its identity's window.
Gated == {"m_start", "m_rate_reply", "m_unauth_reply", "m_err_reply", "done"}
PassedBoth(tk) ==
    tk.checks = <<"rate_ok", "auth_ok">> /\ tk.user \in AuthorizedUsers
LLMCallBy(t) == tasks[t].pc \in {"pm_call", "q_call"} /\ tasks'[t] # tasks[t]
C24_GatesBeforeWork ==
    /\ [](\A t \in TaskIds : tasks[t].kind = "msg" =>
            /\ tasks[t].pc = "m_start" => tasks[t].checks = <<>>
            /\ tasks[t].pc = "m_rate_reply" => tasks[t].checks = <<"rate_no">>
            /\ tasks[t].pc = "m_unauth_reply" =>
                 tasks[t].checks = <<"rate_ok", "auth_no">>
            /\ tasks[t].pc \notin Gated => PassedBoth(tasks[t])
            /\ ~ PassedBoth(tasks[t]) =>
                 /\ tasks[t].wrote = 0 /\ tasks[t].llmCalls = 0
                 /\ ~ tasks[t].hasParsed /\ ~ tasks[t].read)
    /\ [][\A t \in TaskIds :
            /\ LLMCallBy(t) => PassedBoth(tasks[t])
            /\ tasks'[t] # tasks[t] /\ store' # store => PassedBoth(tasks[t])
            /\ Starts(t) /\ tasks'[t].pc = "m_unauth_reply" =>
                 requests'[tasks[t].user] = Append(Young(tasks[t].user), now)]_vars

\* one message was rate-limited, one was rejected by the authorization lookup
\* and one has had its record written
C24_Witness ==
    /\ \E i \in 1..Len(store) : store[i].update = 1
    /\ \E t1 \in TaskIds, t2 \in TaskIds :
          /\ tasks[t1].checks = <<"rate_no">>
          /\ tasks[t2].checks = <<"rate_ok", "auth_no">>
          /\ tasks[t2].pc = "done"

\* C28 as stated: for a message filed automatically as food, sleep or
\* behavior, the handler sends the confirmation only when the row was
\* appended, and sends or has delivered the 'error saving the data' reply only
\* when no row was appended, whatever the outcomes of the write and of the
\* deliveries.
C28_AsStated ==
    \A t \in TaskIds :
        LET k == tasks[t]
        IN  (k.kind = "msg" /\ k.gate = "auto" /\ k.route \in RecordRoutes) =>
               /\ (k.pc = "m_confirm_reply" \/ "confirm" \in Range(k.replies))
                     => k.wrote = 1
               /\ (k.pc = "m_saveerr_reply" \/ "save_error" \in Range(k.replies))
                     => k.wrote = 0

\* ------------------------------------------------------------------------
\* Claims on clarification tickets and their resolution (checked under Spec)
\* ------------------------------------------------------------------------
\* C25: a message classified with a confidence below 0.6, the classifier's
\* fallback included, writes nothing to the store: the step that ends its
\* classification appends no row and asks for clarification, its handler
\* never writes afterwards, and a row is appended afterwards only by a message
\* that was filed automatically or by a callback that found a ticket.
Classifies(t) ==
    /\ tasks[t].kind = "msg"
    /\ tasks[t].pc \in {"pm_call", "pm_sleep"}
    /\ tasks'[t].pc \notin {"pm_call", "pm_sleep", "m_err_reply"}
C25_NoWriteBeforeResolution ==
    /\ [](\A t \in TaskIds : tasks[t].gate = "clarify" =>
            /\ tasks[t].wrote = 0
            /\ tasks[t].pc \in {"m_clarify_reply", "m_clarify_err_reply",
                                "m_err_reply", "done"}
            /\ \A i \in 1..Len(store) : store[i].update # tasks[t].seq)
    /\ [][\A t \in TaskIds :
            /\ Classifies(t) /\ tasks'[t].parsed.confidence < 60 =>
                 /\ store' = store
                 /\ tasks'[t].gate = "clarify"
                 /\ tasks'[t].pc = "m_clarify_reply"
            /\ Classifies(t) /\ tasks'[t].usedFallback =>
                 tasks'[t].parsed.confidence < 60
            /\ tasks'[t] # tasks[t] /\ store' # store =>
                 \/ tasks'[t].kind = "msg" /\ tasks'[t].gate = "auto"
                 \/ /\ tasks[t].kind = "cb"
                    /\ tasks[t].ticket # 0 \/ tasks'[t].ticket # 0]_vars

\* a message classified by the fallback is being asked about while an earlier
\* message, asked about too, has ended with nothing written
C25_Witness ==
    \E t \in TaskIds, s \in TaskIds :
        /\ tasks[t].kind = "msg" /\ tasks[t].gate = "clarify"
        /\ tasks[t].usedFallback
        /\ tasks[t].pc = "m_clarify_reply"
        /\ ticketOwner[tasks[t].text_id] = tasks[t].seq
        /\ tasks[s].kind = "msg" /\ tasks[s].gate = "clarify"
        /\ tasks[s].pc = "done"
        /\ Range(tasks[s].replies) = {"clarify"}
        /\ store = <<>>

\* C26 as stated: when two resolution callbacks for the same ticket are
\* handled at the same time, at most one of them writes a record.
C26_AsStated ==
    \A t1 \in TaskIds, t2 \in TaskIds :
        (/\ t1 # t2
         /\ tasks[t1].kind = "cb" /\ tasks[t2].kind = "cb"
         /\ tasks[t1].ticket # 0
         /\ tasks[t1].ticket = tasks[t2].ticket
         /\ tasks[t1].text_id = tasks[t2].text_id)
        => tasks[t1].wrote + tasks[t2].wrote <= 1

\* C27: a callback that has found its ticket and passed the authorization
\* check, and whose reply (the confirmation, the save error, the answer with
\* its log, or the answer error) is delivered, ends with the ticket removed
\* from the map, also when nothing was written; a callback that is told
\* 'not found' or 'not authorized' leaves the ticket map as it was, as does
\* every other step.
ResolutionReplies == {"c_confirm_reply", "c_saveerr_reply", "c_q_reply",
                      "c_q_err_reply"}
Delivers(t) == Len(tasks'[t].replies) > Len(tasks[t].replies)
C27_TicketRemovedAfterReply ==
    [][\A t \in TaskIds : tasks[t].kind = "cb" /\ tasks'[t] # tasks[t] =>
         /\ (/\ tasks[t].pc \in ResolutionReplies
             /\ Delivers(t)
             /\ tasks'[t].pc = "done") =>
               /\ tasks[t].ticket # 0
               /\ CLARIFICATION_TEXTS'[tasks[t].text_id] = ""
               /\ \A i \in TextIds \ {tasks[t].text_id} :
                     CLARIFICATION_TEXTS'[i] = CLARIFICATION_TEXTS[i]
         /\ tasks[t].pc \in {"c_answer", "c_notfound_reply", "c_unauth_reply",
                             "c_err_reply", "q_call", "q_sleep"} =>
               CLARIFICATION_TEXTS' = CLARIFICATION_TEXTS]_vars

\* a callback whose write failed has delivered the save error: its ticket is
\* gone and there is no record
C27_Witness ==
    \E t \in TaskIds :
        /\ tasks[t].kind = "cb" /\ tasks[t].pc = "done"
        /\ tasks[t].replies = <<"cb_save_error">>
        /\ tasks[t].wrote = 0
        /\ issuedFor[tasks[t].text_id] = {}
        /\ CLARIFICATION_TEXTS[tasks[t].text_id] = ""
        /\ store = <<>>

\* ------------------------------------------------------------------------
\* Claims on the validation and the extraction of the LLM's response
\* (checked under SpecClassify)
\* ------------------------------------------------------------------------
TextFields == {"item", "qty_unit", "method", "start_time", "end_time",
               "description", "notes"}
NumericLooking(v) == v.t = "str" /\ v.s \in {"45"}

\* C29 as stated: in a ParsedMessage built from a response, qty_value and
\* duration_min are absent or numbers, a numeric-looking value being
\* converted; intensity_1_5 is absent or an integer from 1 to 5; every text
\* field is absent or a string; and a value that fails is dropped, the
\* attempt itself never failing because of it.
C29_AsStated ==
    \A t \in TaskIds :
        LET k == tasks[t]
        IN  /\ k.lastExc \notin {"ValueError", "OverflowError"}
            /\ (k.hasParsed /\ ~ k.usedFallback) =>
                  /\ k.parsed.qty_value.t \in {"null", "int", "float"}
                  /\ k.parsed.duration_min.t \in {"null", "int", "float"}
                  /\ NumericLooking(k.llmData.qty_value) =>
                        k.parsed.qty_value.t # "null"
                  /\ NumericLooking(k.llmData.duration_min) =>
                        k.parsed.duration_min.t # "null"
                  /\ \/ k.parsed.intensity_1_5.t = "null"
                     \/ /\ k.parsed.intensity_1_5.t = "int"
                        /\ k.parsed.intensity_1_5.n \in {100, 200, 300, 400, 500}
                  /\ \A f \in TextFields : k.parsed[f].t \in {"null", "str"}

\* the attempt made last has failed with exception exc
LastFailedWith(k, exc) ==
    /\ k.pc = "pm_sleep" \/ (k.pc = "pm_done" /\ k.usedFallback)
    /\ exc = "" \/ k.lastExc = exc
BraceSegs(segs) == Opens(segs) \cup Closes(segs)

\* C30 as stated: when the first text in braces of a response is a
\* well-formed JSON object, after prose or not, that object is the one
\* parsed, also when prose or further text in braces follows it, so the
\* attempt does not fail to decode; a response without any text in braces is
\* a failed attempt.
C30_AsStated ==
    \A t \in TaskIds :
        LET k == tasks[t]
            segs == k.response
        IN  (k.kind = "classify" /\ segs # <<>> /\ k.pc # "pm_call") =>
              /\ (BraceSegs(segs) # {} /\ segs[Min(BraceSegs(segs))] = "O") =>
                    ~ LastFailedWith(k, "JSONDecodeError")
              /\ BraceSegs(segs) = {} => LastFailedWith(k, "")

====
